---- MODULE Spec2Model ----
(***************************************************************************)
(* Model of librealsense's ds_calib_common (src/ds/ds-calib-common.cpp):   *)
(*   check_focal_length_params, get_target_rect_info and                   *)
(*   get_focal_length_correction_factor.                                   *)
(*                                                                         *)
(* Floating-point values are modelled as exact rationals <<n, d>> with     *)
(* d >= 0 in lowest terms; d = 0 encodes the IEEE special values:          *)
(* <<1,0>> = +inf, <<-1,0>> = -inf, <<0,0>> = NaN.  Rounding is not        *)
(* modelled.                                                               *)
(***************************************************************************)
EXTENDS Integers, Sequences, FiniteSets, TLC

VARIABLES
    \* ---- check_focal_length_params
    params,         \* the eight int arguments, in declaration order
    vpc,            \* "call" before the call, "done" after it
    raised,         \* the invalid_value_exceptions it raised, in order
    \* ---- get_target_rect_info
    queue,          \* rs2_frame_queue contents (FIFO, shared with the producer)
    pc,             \* position of the call
    queue_size,     \* local read at entry
    fc,             \* loop counter
    fx, fy,         \* float & out-parameters
    rect_sides_arr, \* std::vector of detected edge vectors
    rect_sides,     \* float[4] out-parameter; <<>> while the call has not written it
    progress,       \* int progress (by value)
    has_callback,   \* progress_callback != nullptr
    cb_calls,       \* arguments of on_update_progress, in call order
    popped,         \* history: frames returned by rs2_poll_for_frame
    polls,          \* history: number of rs2_poll_for_frame calls
    pushed,         \* history: frames enqueued by the producer
    queue0,         \* history: queue contents when the size was read
    \* ---- get_focal_length_correction_factor
    epc,            \* "call" before the call, "done" after it
    ein,            \* the input arguments
    eout            \* <<>> before the call, then <<outputs and intermediate values>>

valVars == <<params, vpc, raised>>
aggVars == <<queue, pc, queue_size, fc, fx, fy, rect_sides_arr, rect_sides,
             progress, has_callback, cb_calls, popped, polls, pushed, queue0>>
estVars == <<epc, ein, eout>>
vars == <<params, vpc, raised, queue, pc, queue_size, fc, fx, fy, rect_sides_arr,
          rect_sides, progress, has_callback, cb_calls, popped, polls, pushed,
          queue0, epc, ein, eout>>

(***************************************************************************)
(* Float arithmetic                                                        *)
(***************************************************************************)
AbsI(n) == IF n < 0 THEN -n ELSE n

SignI(n) == IF n < 0 THEN -1 ELSE IF n > 0 THEN 1 ELSE 0

RECURSIVE GCD(_, _)
GCD(a, b) == IF b = 0 THEN a ELSE GCD(b, a % b)

\* lowest terms, positive denominator; x/0 is +-inf and 0/0 is NaN
Norm(n, d) ==
    IF d = 0 THEN <<SignI(n), 0>>
    ELSE LET g == GCD(AbsI(n), AbsI(d))
             s == SignI(d)
         IN  <<(s * n) \div g, (s * d) \div g>>

F(n) == <<n, 1>>

NaN == <<0, 0>>

IsFinite(a) == a[2] # 0

FAdd(a, b) ==
    IF a[2] = 0 /\ b[2] = 0 THEN (IF a = b THEN a ELSE NaN)
    ELSE IF a[2] = 0 THEN a
    ELSE IF b[2] = 0 THEN b
    ELSE LET g == GCD(a[2], b[2])
         IN  Norm(a[1] * (b[2] \div g) + b[1] * (a[2] \div g), (a[2] \div g) * b[2])

FNeg(a) == <<-a[1], a[2]>>

FSub(a, b) == FAdd(a, FNeg(b))

\* n1/d1 * n2/d2, cancelling common factors before multiplying
Prod(n1, d1, n2, d2) ==
    LET g1 == GCD(AbsI(n1), d2)
        g2 == GCD(AbsI(n2), d1)
        h1 == IF g1 = 0 THEN 1 ELSE g1
        h2 == IF g2 = 0 THEN 1 ELSE g2
    IN  Norm((n1 \div h1) * (n2 \div h2), (d1 \div h2) * (d2 \div h1))

FMul(a, b) == Prod(a[1], a[2], b[1], b[2])

\* a / b = a * (1 / b); x / 0 is +-inf, 0 / 0 and inf / inf are NaN
FDiv(a, b) ==
    IF b[1] < 0 THEN Prod(a[1], a[2], -b[2], -b[1])
    ELSE Prod(a[1], a[2], b[2], b[1])

FAbs(a) == <<AbsI(a[1]), a[2]>>

\* a > b; false when either operand is NaN
FGt(a, b) == a # NaN /\ b # NaN /\ a[1] * b[2] > b[1] * a[2]

FLt(a, b) == FGt(b, a)

\* rad2deg( atanf( x ) ).  atanf is transcendental; it is represented by the
\* odd, non-decreasing, bounded piecewise-linear map that is 45 * x on [-2, 2]
\* and +-90 beyond, which has atanf's zero, sign, limits at +-inf and NaN
\* propagation.
AtanDeg(x) ==
    IF x = NaN THEN NaN
    ELSE IF FGt(x, F(2)) THEN F(90)
    ELSE IF FLt(x, F(-2)) THEN F(-90)
    ELSE FMul(F(45), x)

(***************************************************************************)
(* check_focal_length_params                                               *)
(***************************************************************************)
InvalidValue(field, value, lo, hi) ==
    [error |-> "invalid_value_exception", field |-> field, value |-> value,
     lo |-> lo, hi |-> hi]

\* lines 26-54: the test "v < lo || v > hi" of each if
OutOfRange_Strict(v, lo, hi) == v <= lo \/ v > hi

OutOfRange(v, lo, hi) == v < lo \/ v > hi

\* the exceptions one call raises: <<>> when it returns normally
check_focal_length_params(p) ==
    IF OutOfRange(p[1], 8, 256) THEN <<InvalidValue("step_count", p[1], 8, 256)>>
    ELSE IF OutOfRange(p[2], 1, 60000)
        THEN <<InvalidValue("fy_scan_range", p[2], 1, 60000)>>
    ELSE IF OutOfRange(p[3], 0, 1)
        THEN <<InvalidValue("keep_new_value_after_sucessful_scan", p[3], 0, 1)>>
    ELSE IF OutOfRange(p[4], 0, 1)
        THEN <<InvalidValue("interrrupt_data_samling", p[4], 0, 1)>>
    ELSE IF OutOfRange(p[5], 0, 1) THEN <<InvalidValue("adjust_both_sides", p[5], 0, 1)>>
    ELSE IF OutOfRange(p[6], 0, 1) THEN <<InvalidValue("fl_scan_location", p[6], 0, 1)>>
    ELSE IF OutOfRange(p[7], 0, 1) THEN <<InvalidValue("fy_scan_direction", p[7], 0, 1)>>
    ELSE IF OutOfRange(p[8], 0, 1) THEN <<InvalidValue("white_wall_mode", p[8], 0, 1)>>
    ELSE <<>>

\* argument values tried for each parameter: both boundaries and one past each
StepCounts == {7, 8, 256, 257}
ScanRanges == {0, 1, 60000, 60001}
Flags == {-1, 0, 1, 2}

CheckParams ==
    /\ vpc = "call"
    /\ vpc' = "done"
    /\ raised' = check_focal_length_params(params)
    /\ UNCHANGED <<params, aggVars, estVars>>

(***************************************************************************)
(* get_target_rect_info                                                    *)
(***************************************************************************)
MaxFrames == 3      \* longest queue at entry
MaxPush == 1        \* frames the capture thread enqueues during the call

\* intrinsics carried by frames with data (fx, fy); the sign of fx matters
\* to the "fx < 0.0f" test
IntrinsicVals == {<<-2, 3>>, <<4, 5>>}

\* edge vectors the detector extracts
SideVecs == {<<4, 4, 2, 2>>, <<1, 2, 3, 5>>}

\* data: ff.get_data() non-null;  ok: rs2_extract_target_dimensions leaves e null
DataFrames ==
    {[data |-> TRUE, ok |-> o, fx |-> in[1], fy |-> in[2], sides |-> s] :
        o \in BOOLEAN, in \in IntrinsicVals, s \in SideVecs}

EmptyFrame == [data |-> FALSE, ok |-> TRUE, fx |-> 6, fy |-> 7, sides |-> <<0, 0, 0, 0>>]

Frames == DataFrames \cup {EmptyFrame}

\* frames the capture thread delivers while the call runs
PushFrames == {EmptyFrame,
               [data |-> TRUE, ok |-> TRUE, fx |-> 4, fy |-> 5, sides |-> <<4, 4, 2, 2>>]}

ProgressVals == {0, 5}

SeqsUpTo(S, n) == UNION {[1..k -> S] : k \in 0..n}

Terminal == {"returned", "EmptyInput", "DetectionFailure", "NoValidMeasurements"}

\* lines 109-122: rect_sides = arr[0]; += arr[j] for j >= 1; /= arr.size()
RECURSIVE SumFrom(_, _, _)
SumFrom(arr, j, acc) ==
    IF j > Len(arr) THEN acc
    ELSE SumFrom(arr, j + 1, [i \in 1..4 |-> FAdd(acc[i], F(arr[j][i]))])

AverageSides_FromZero(arr) ==
    LET first == [i \in 1..4 |-> F(arr[1][i])]
        total == SumFrom(arr, 1, first)
    IN  [i \in 1..4 |-> FDiv(total[i], F(Len(arr)))]

AverageSides(arr) ==
    LET first == [i \in 1..4 |-> F(arr[1][i])]
        total == SumFrom(arr, 2, first)
    IN  [i \in 1..4 |-> FDiv(total[i], F(Len(arr)))]

\* lines 109-124: what the call does once the loop is left
FinishPc_NoThrow(arr) == "returned"

FinishPc(arr) == IF Len(arr) > 0 THEN "returned" ELSE "NoValidMeasurements"

FinishSides(arr, old) == IF Len(arr) > 0 THEN AverageSides(arr) ELSE old

\* lines 67-75
Enter ==
    /\ pc = "start"
    /\ fx' = -1
    /\ rect_sides_arr' = <<>>
    /\ queue_size' = Len(queue)
    /\ queue0' = queue
    /\ fc' = 0
    /\ pc' = IF Len(queue) = 0 THEN "EmptyInput" ELSE "loop"
    /\ UNCHANGED <<queue, fy, rect_sides, progress, has_callback, cb_calls,
                   popped, polls, pushed, valVars, estVars>>

\* line 78: the first operand of the loop condition, before fc is incremented
LoopTest_LiveSize == queue # <<>>

LoopTest == fc < queue_size

\* line 83: intrinsics are read while fx < 0.0f
CaptureIntrinsics(cur) == cur < 0

\* lines 93-99: the detector set e and the call throws
DetectorFails_Ignored(f) == FALSE

DetectorFails(f) == f.data /\ ~f.ok

\* line 105: the callback is reached by every iteration that does not throw
ReportsProgress_DataOnly(f) == has_callback /\ f.data

ReportsProgress(f) == has_callback

\* lines 78-107: one iteration whose "fc++ < queue_size" test passes
PollFrame ==
    /\ pc = "loop"
    /\ LoopTest
    /\ fc' = fc + 1
    /\ polls' = polls + 1
    /\ IF queue = <<>>
       THEN \* rs2_poll_for_frame returns 0: the loop is left
            /\ pc' = FinishPc(rect_sides_arr)
            /\ rect_sides' = FinishSides(rect_sides_arr, rect_sides)
            /\ UNCHANGED <<queue, popped, fx, fy, rect_sides_arr, progress, cb_calls>>
       ELSE LET f == Head(queue)
                capture == f.data /\ CaptureIntrinsics(fx)
                throws == DetectorFails(f)
            IN  /\ queue' = Tail(queue)
                /\ popped' = Append(popped, f)
                /\ fx' = IF capture THEN f.fx ELSE fx
                /\ fy' = IF capture THEN f.fy ELSE fy
                /\ rect_sides_arr' = IF f.data /\ ~throws
                                     THEN Append(rect_sides_arr, f.sides)
                                     ELSE rect_sides_arr
                /\ pc' = IF throws THEN "DetectionFailure" ELSE "loop"
                /\ IF ~throws /\ ReportsProgress(f)
                   THEN /\ progress' = progress + 1
                        /\ cb_calls' = Append(cb_calls, progress + 1)
                   ELSE UNCHANGED <<progress, cb_calls>>
                /\ UNCHANGED rect_sides
    /\ UNCHANGED <<queue_size, has_callback, pushed, queue0, valVars, estVars>>

\* lines 78, 109-124: the "fc++ < queue_size" test fails, no poll is made
ExitLoop ==
    /\ pc = "loop"
    /\ ~LoopTest
    /\ fc' = fc + 1
    /\ pc' = FinishPc(rect_sides_arr)
    /\ rect_sides' = FinishSides(rect_sides_arr, rect_sides)
    /\ UNCHANGED <<queue, queue_size, fx, fy, rect_sides_arr, progress, has_callback,
                   cb_calls, popped, polls, pushed, queue0, valVars, estVars>>

\* the capture thread enqueues a frame while the call is in progress
Push ==
    /\ pc = "loop"
    /\ Len(pushed) < MaxPush
    /\ \E f \in PushFrames :
        /\ queue' = Append(queue, f)
        /\ pushed' = Append(pushed, f)
    /\ UNCHANGED <<pc, queue_size, fc, fx, fy, rect_sides_arr, rect_sides, progress,
                   has_callback, cb_calls, popped, polls, queue0, valVars, estVars>>

ValIdle == params = <<8, 1, 0, 0, 0, 0, 0, 0>> /\ vpc = "idle" /\ raised = <<>>

EstIdle == epc = "idle" /\ ein = <<>> /\ eout = <<>>

AggIdle ==
    /\ queue = <<>> /\ pc = "idle" /\ queue_size = 0 /\ fc = 0
    /\ fx = 0 /\ fy = 0 /\ rect_sides_arr = <<>> /\ rect_sides = <<>>
    /\ progress = 0 /\ has_callback = FALSE /\ cb_calls = <<>>
    /\ popped = <<>> /\ polls = 0 /\ pushed = <<>> /\ queue0 = <<>>

Init ==
    /\ queue \in SeqsUpTo(Frames, MaxFrames)
    /\ pc = "start"
    /\ queue_size = 0 /\ fc = 0
    /\ fx = 0 /\ fy = 0 /\ rect_sides_arr = <<>> /\ rect_sides = <<>>
    /\ progress \in ProgressVals
    /\ has_callback \in BOOLEAN
    /\ cb_calls = <<>> /\ popped = <<>> /\ polls = 0 /\ pushed = <<>> /\ queue0 = <<>>
    /\ ValIdle /\ EstIdle

Next == Enter \/ PollFrame \/ ExitLoop \/ Push

Spec == Init /\ [][Next]_vars

InitVal ==
    /\ params \in StepCounts \X ScanRanges \X Flags \X Flags \X Flags \X Flags \X Flags \X Flags
    /\ vpc = "call"
    /\ raised = <<>>
    /\ AggIdle /\ EstIdle

NextVal == CheckParams

SpecVal == InitVal /\ [][NextVal]_vars

(***************************************************************************)
(* get_focal_length_correction_factor                                      *)
(***************************************************************************)
Tenth == <<1, 10>>      \* 0.1f

\* lines 139-146: ar = (s0 + s1) / (s2 + s3) when the vertical sum exceeds 0.1f
AspectRatio(s) ==
    LET tmp == FAdd(s[3], s[4])
    IN  IF FGt(tmp, Tenth) THEN FDiv(FAdd(s[1], s[2]), tmp) ELSE F(0)

\* lines 148-150
Align_NoMinusOne(ar0, ar1) == IF FGt(ar0, F(0)) THEN FDiv(ar1, ar0) ELSE F(0)

Align(ar0, ar1) == IF FGt(ar0, F(0)) THEN FSub(FDiv(ar1, ar0), F(1)) ELSE F(0)

\* lines 156-166 and 176-186: gt[i] is assigned only when the edge is positive,
\* otherwise the array keeps what it held (prev)
GroundTruth(prev, s, fxv, fyv, target_w, target_h) ==
    [i \in 1..4 |->
        IF FGt(s[i], F(0))
        THEN (IF i <= 2 THEN FDiv(FMul(fxv, target_w), s[i])
                        ELSE FDiv(FMul(fyv, target_h), s[i]))
        ELSE prev[i]]

\* lines 168-171 and 188-191
AveGt(gt) == FDiv(FAdd(FAdd(FAdd(FAdd(F(0), gt[1]), gt[2]), gt[3]), gt[4]), F(4))

\* lines 173-174 and 193-194
TiltDeg(align, ave_gt, baseline) == AtanDeg(FDiv(FMul(align, ave_gt), FAbs(baseline)))

\* lines 203-214: r = c * right / left when the left edge exceeds 0.1f
CrossRatio_Unguarded(c, l, r) == FDiv(FMul(c, r), l)

CrossRatio(c, l, r) == IF FGt(l, Tenth) THEN FDiv(FMul(c, r), l) ELSE F(0)

\* lines 216-222
RatioPercent(r) ==
    FMul(FSub(FDiv(FAdd(FAdd(FAdd(FAdd(F(0), r[1]), r[2]), r[3]), r[4]), F(4)), F(1)),
         F(100))

get_focal_length_correction_factor(in) ==
    LET correction_factor == <<1, 2>>
        ar == <<AspectRatio(in.left), AspectRatio(in.right)>>
        align == Align(ar[1], ar[2])
        zero == [i \in 1..4 |-> F(0)]
        gtl == GroundTruth(zero, in.left, in.fx[1], in.fy[1], in.target_w, in.target_h)
        avel == AveGt(gtl)
        gtr == GroundTruth(gtl, in.right, in.fx[2], in.fy[2], in.target_w, in.target_h)
        aver == AveGt(gtr)
        ta == <<TiltDeg(align, avel, in.baseline), TiltDeg(align, aver, in.baseline)>>
        cx == FDiv(in.fx[1], in.fx[2])
        cy == FDiv(in.fy[1], in.fy[2])
        r == [i \in 1..4 |->
                CrossRatio(IF i <= 2 THEN cx ELSE cy, in.left[i], in.right[i])]
        ra == RatioPercent(r)
        ratio == FSub(ra, FMul(correction_factor, FMul(align, F(100))))
    IN  [ar |-> ar, align |-> align, gt_left |-> gtl, ave_gt_left |-> avel,
         gt_right |-> gtr, ave_gt_right |-> aver, ta |-> ta,
         angle |-> FDiv(FAdd(ta[1], ta[2]), F(2)),
         c |-> <<cx, cy>>, r |-> r, ratio |-> ratio,
         ret |-> FAdd(FDiv(ratio, F(100)), F(1))]

\* averaged edge vectors handed to the estimator
EdgeVecs ==
    {<<F(0), F(0), F(0), F(0)>>,
     <<F(4), F(4), F(2), F(2)>>,
     <<F(5), F(4), F(2), F(3)>>,
     <<F(0), F(4), F(2), F(2)>>,
     <<F(4), F(4), F(2), F(0)>>,
     <<<<1, 20>>, F(4), F(2), F(2)>>,
     <<F(4), F(4), <<1, 20>>, <<1, 20>>>>,
     <<F(-4), F(-4), F(2), F(2)>>}

IntrinsicPairs == {<<F(2), F(2)>>, <<F(2), F(3)>>, <<F(2), F(0)>>, <<F(0), F(0)>>}

TargetDims == {F(1), F(2)}

Baselines == {F(0), F(5), F(-5)}

EstInputs ==
    [left : EdgeVecs, right : EdgeVecs, fx : IntrinsicPairs, fy : IntrinsicPairs,
     target_w : TargetDims, target_h : {F(1)}, baseline : Baselines]

Estimate ==
    /\ epc = "call"
    /\ epc' = "done"
    /\ eout' = <<get_focal_length_correction_factor(ein)>>
    /\ UNCHANGED <<ein, valVars, aggVars>>

InitEst ==
    /\ epc = "call"
    /\ ein \in EstInputs
    /\ eout = <<>>
    /\ ValIdle /\ AggIdle

NextEst == Estimate

SpecEst == InitEst /\ [][NextEst]_vars

(***************************************************************************)
(* Properties of get_target_rect_info                                      *)
(***************************************************************************)
HasData(f) == f.data

\* the popped frames that carry data, in pop order
DataPopped == SelectSeq(popped, HasData)

\* the loop ran to its end: every frame counted at entry was popped and the
\* detector failed on none
AllPopped == pc \in {"returned", "NoValidMeasurements"} /\ Len(popped) = queue_size

RECURSIVE SumComp(_, _)
SumComp(fs, i) == IF fs = <<>> THEN 0 ELSE fs[1].sides[i] + SumComp(Tail(fs), i)

\* C1 (as claimed): when all n frames counted at entry are popped, k of them
\* with data and successful detection and the others empty, a registered
\* progress callback is invoked exactly k times.
C1_Original ==
    (AllPopped /\ has_callback) => Len(cb_calls) = Len(DataPopped)

\* C1 (amended): in that case the registered callback is invoked exactly n
\* times, once per popped frame (the empty ones included), with the values
\* progress+1 .. progress+n.
C1_CallbackPerPoppedFrame ==
    (AllPopped /\ has_callback) =>
        /\ Len(cb_calls) = queue_size
        /\ \A i \in 1..Len(cb_calls) : cb_calls[i] = progress - Len(cb_calls) + i

C1_Witness ==
    /\ AllPopped /\ has_callback
    /\ Len(popped) = 3
    /\ Len(DataPopped) = 1
    /\ Len(cb_calls) = 3

\* C2 (as claimed): whenever the call succeeds, fx and fy are the intrinsics
\* of the first popped frame that has data, whatever values the frames carry.
C2_Original ==
    pc = "returned" => (fx = DataPopped[1].fx /\ fy = DataPopped[1].fy)

\* C3: the call fails with EmptyInput exactly when the size read at entry is
\* 0, fails with NoValidMeasurements when the queue was non-empty at entry
\* and every popped frame is empty, and writes no averaged vector in either
\* case.
C3_EmptyAndNoValid ==
    /\ (pc # "start" /\ queue_size = 0) => pc = "EmptyInput"
    /\ pc = "EmptyInput" => (queue_size = 0 /\ rect_sides = <<>> /\ popped = <<>>)
    /\ (pc \in Terminal /\ queue_size > 0 /\ DataPopped = <<>>) =>
            (pc = "NoValidMeasurements" /\ rect_sides = <<>>)
    /\ pc = "NoValidMeasurements" => rect_sides = <<>>

C3_Witness ==
    /\ pc = "NoValidMeasurements"
    /\ queue_size = 2
    /\ Len(popped) = 2
    /\ DataPopped = <<>>

\* C4: a detector failure on a popped frame aborts the call at once with
\* DetectionFailure: rect_sides is not written, the failing frame is the last
\* one popped, the callback was invoked for the earlier frames only, and
\* from then on nothing is popped, reported or written.
C4_FailureState ==
    /\ \A i \in 1..Len(popped) :
          (popped[i].data /\ ~popped[i].ok) =>
              (pc = "DetectionFailure" /\ i = Len(popped))
    /\ pc = "DetectionFailure" =>
          /\ popped # <<>>
          /\ popped[Len(popped)].data /\ ~popped[Len(popped)].ok
          /\ rect_sides = <<>>
          /\ Len(cb_calls) = (IF has_callback THEN Len(popped) - 1 ELSE 0)
          /\ popped \o queue = queue0 \o pushed

C4_DetectionFailureAborts ==
    /\ []C4_FailureState
    /\ [][pc = "DetectionFailure" =>
            /\ pc' = pc
            /\ popped' = popped
            /\ queue' = queue
            /\ cb_calls' = cb_calls
            /\ rect_sides' = rect_sides]_vars

C4_Witness ==
    /\ pc = "DetectionFailure"
    /\ has_callback
    /\ Len(popped) = 2
    /\ popped[1].data /\ popped[1].ok
    /\ queue # <<>>
    /\ Len(cb_calls) = 1

\* C5: on success after k >= 1 detected vectors, each component of
\* rect_sides is the arithmetic mean of that component over exactly the k
\* popped frames that carry data.
C5_MeanOfDetected ==
    pc = "returned" =>
        LET k == Len(DataPopped)
        IN  /\ k >= 1
            /\ Len(rect_sides_arr) = k
            /\ Len(rect_sides) = 4
            /\ \A i \in 1..4 :
                  /\ IsFinite(rect_sides[i])
                  /\ FMul(rect_sides[i], F(k)) = F(SumComp(DataPopped, i))

C5_Witness ==
    /\ pc = "returned"
    /\ Len(popped) = 3
    /\ Len(DataPopped) = 2
    /\ DataPopped[1].sides # DataPopped[2].sides
    /\ rect_sides = <<<<5, 2>>, F(3), <<5, 2>>, <<7, 2>>>>

\* C10: with the capture thread pushing concurrently, the call makes at most
\* N poll attempts and pops at most N frames, N being the size read at entry;
\* it terminates within N iterations: every step of the call inside the loop
\* advances fc, fc never exceeds N + 1, and a finished call stays finished; the frames pushed during the call are left in the
\* queue.
C10_Bounds ==
    /\ polls <= queue_size
    /\ Len(popped) <= queue_size
    /\ Len(popped) <= polls
    /\ pc # "start" => fc <= queue_size + 1
    /\ pc = "loop" => fc = polls
    /\ pc # "start" => popped \o queue = queue0 \o pushed
    /\ Len(pushed) <= Len(queue)
    /\ SubSeq(queue, Len(queue) - Len(pushed) + 1, Len(queue)) = pushed

C10_BoundedPolls ==
    /\ []C10_Bounds
    /\ [][pc = "loop" =>
            \/ (fc' = fc + 1 /\ pushed' = pushed)
            \/ (fc' = fc /\ pc' = pc /\ popped' = popped
                    /\ Len(pushed') = Len(pushed) + 1)]_vars
    /\ [][(pc \in Terminal) => (pc' = pc /\ popped' = popped /\ polls' = polls)]_vars

C10_Witness ==
    /\ pc \in Terminal
    /\ queue_size = 2
    /\ polls = 2
    /\ Len(popped) = 2
    /\ Len(pushed) = 1
    /\ queue = pushed

(***************************************************************************)
(* Properties of check_focal_length_params                                 *)
(***************************************************************************)
\* the valid ranges, in parameter order
RangeTable ==
    <<[name |-> "step_count", lo |-> 8, hi |-> 256],
      [name |-> "fy_scan_range", lo |-> 1, hi |-> 60000],
      [name |-> "keep_new_value_after_sucessful_scan", lo |-> 0, hi |-> 1],
      [name |-> "interrrupt_data_samling", lo |-> 0, hi |-> 1],
      [name |-> "adjust_both_sides", lo |-> 0, hi |-> 1],
      [name |-> "fl_scan_location", lo |-> 0, hi |-> 1],
      [name |-> "fy_scan_direction", lo |-> 0, hi |-> 1],
      [name |-> "white_wall_mode", lo |-> 0, hi |-> 1]>>

InRange(i) == RangeTable[i].lo <= params[i] /\ params[i] <= RangeTable[i].hi

BadFields == {i \in 1..8 : ~InRange(i)}

FirstBad == CHOOSE i \in BadFields : \A j \in BadFields : i <= j

\* C8: the call returns without error iff all eight values lie in their
\* inclusive ranges; otherwise it raises exactly one invalid-value error
\* naming the first out-of-range field in table order with its value and
\* range.
C8_FirstFailureWins ==
    vpc = "done" =>
        /\ (raised = <<>>) <=> (BadFields = {})
        /\ BadFields # {} =>
              /\ Len(raised) = 1
              /\ raised[1] = [error |-> "invalid_value_exception",
                              field |-> RangeTable[FirstBad].name,
                              value |-> params[FirstBad],
                              lo |-> RangeTable[FirstBad].lo,
                              hi |-> RangeTable[FirstBad].hi]

C8_Witness ==
    /\ vpc = "done"
    /\ params = <<8, 60000, 1, 0, 2, 0, -1, 1>>
    /\ Len(raised) = 1
    /\ raised[1].field = "adjust_both_sides"
    /\ raised[1].value = 2

(***************************************************************************)
(* Properties of get_focal_length_correction_factor                        *)
(***************************************************************************)
out == eout[1]

AtMost(a, b) == ~FGt(a, b)

AllFinite(o) == IsFinite(o.ratio) /\ IsFinite(o.angle) /\ IsFinite(o.ret)

\* C6 (as claimed): for every input, each division term whose denominator is
\* at or below 0.1 yields 0, and ratio, angle and the returned factor are
\* free of infinities and NaN.
C6_Original ==
    epc = "done" =>
        /\ \A i \in 1..4 :
              /\ AtMost(ein.left[i], Tenth) => (out.r[i] = F(0) /\ out.gt_left[i] = F(0))
              /\ AtMost(ein.right[i], Tenth) => out.gt_right[i] = F(0)
        /\ AtMost(FAdd(ein.left[3], ein.left[4]), Tenth) => out.ar[1] = F(0)
        /\ AtMost(FAdd(ein.right[3], ein.right[4]), Tenth) => out.ar[2] = F(0)
        /\ AllFinite(out)

\* C6 (amended): each aspect-ratio term whose vertical-edge sum is at or
\* below 0.1 and each cross-sensor ratio term whose left edge is at or below
\* 0.1 yields 0; the left ground-truth terms are guarded at 0 (not 0.1) and
\* align is 0 when ar_left <= 0; the divisions by fx[1], fy[1] and |baseline|
\* are not guarded, and when these three are non-zero no division by zero,
\* infinity or NaN arises in ratio, angle or the returned factor, including
\* for all-zero edge vectors.
C6_GuardedTerms ==
    epc = "done" =>
        /\ \A i \in 1..4 :
              /\ AtMost(ein.left[i], Tenth) => out.r[i] = F(0)
              /\ AtMost(ein.left[i], F(0)) => out.gt_left[i] = F(0)
        /\ AtMost(FAdd(ein.left[3], ein.left[4]), Tenth) => out.ar[1] = F(0)
        /\ AtMost(FAdd(ein.right[3], ein.right[4]), Tenth) => out.ar[2] = F(0)
        /\ AtMost(out.ar[1], F(0)) => out.align = F(0)
        /\ (ein.fx[2] # F(0) /\ ein.fy[2] # F(0) /\ ein.baseline # F(0)) =>
              /\ AllFinite(out)
              /\ IsFinite(out.align) /\ IsFinite(out.ave_gt_left)
              /\ IsFinite(out.ave_gt_right)
              /\ \A i \in 1..4 : IsFinite(out.r[i])

ZeroEdges == <<F(0), F(0), F(0), F(0)>>

C6_Witness ==
    /\ epc = "done"
    /\ ein.left = ZeroEdges /\ ein.right = ZeroEdges
    /\ ein.fx[2] # F(0) /\ ein.fy[2] # F(0) /\ ein.baseline # F(0)
    /\ out.ratio = F(-100) /\ out.angle = F(0) /\ out.ret = F(0)

Identical == ein.left = ein.right /\ ein.fx[1] = ein.fx[2] /\ ein.fy[1] = ein.fy[2]

\* C7 (as claimed): for every input with identical left and right edge
\* vectors and identical intrinsics, align is 0, ratio is 0, angle is 0 and
\* the returned factor is 1.
C7_Original ==
    (epc = "done" /\ Identical) =>
        /\ out.align = F(0)
        /\ out.ratio = F(0)
        /\ out.angle = F(0)
        /\ out.ret = F(1)

\* C7 (amended): for such inputs align is 0; angle is 0 when the baseline is
\* non-zero; ratio is 0 and the returned factor is 1 when in addition all
\* four edges exceed 0.1 and fx, fy are non-zero.
C7_IdenticalSensors ==
    (epc = "done" /\ Identical) =>
        /\ out.align = F(0)
        /\ ein.baseline # F(0) => out.angle = F(0)
        /\ ( /\ \A i \in 1..4 : FGt(ein.left[i], Tenth)
             /\ ein.fx[1] # F(0) /\ ein.fy[1] # F(0) ) =>
              (out.ratio = F(0) /\ out.ret = F(1))

C7_Witness ==
    /\ epc = "done" /\ Identical
    /\ ein.left = <<F(5), F(4), F(2), F(3)>>
    /\ ein.fx[1] = F(2) /\ ein.fy[1] = F(2) /\ ein.baseline = F(-5)
    /\ out.ratio = F(0) /\ out.angle = F(0) /\ out.ret = F(1)

\* one quarter of the sum of a sensor's own ground-truth terms
OwnTerm(s, fxv, fyv, i) ==
    IF FGt(s[i], F(0))
    THEN FDiv(FMul(IF i <= 2 THEN fxv ELSE fyv,
                   IF i <= 2 THEN ein.target_w ELSE ein.target_h), s[i])
    ELSE F(0)

OwnAverage(s, fxv, fyv) ==
    FDiv(FAdd(FAdd(OwnTerm(s, fxv, fyv, 1), OwnTerm(s, fxv, fyv, 2)),
              FAdd(OwnTerm(s, fxv, fyv, 3), OwnTerm(s, fxv, fyv, 4))), F(4))

\* C9 (as claimed): each sensor's average ground-truth distance is one
\* quarter of the sum of its own four terms (0 for a non-positive edge), so
\* the right sensor's average does not depend on the left sensor's inputs.
C9_Original ==
    epc = "done" =>
        /\ out.ave_gt_left = OwnAverage(ein.left, ein.fx[1], ein.fy[1])
        /\ out.ave_gt_right = OwnAverage(ein.right, ein.fx[2], ein.fy[2])
====
